---- MODULE Spec2Model ----
(***************************************************************************)
(* Model of src/main.py: the Streamlit script main(), the credential probe *)
(* valid_api, the retry loop invoke_with_retry and the regex parser        *)
(* extract_code_and_tests.                                                 *)
(*                                                                         *)
(* Text that the code inspects character by character (the completion      *)
(* response) is a sequence of characters, each a string: the character     *)
(* itself, or its code point ("U+000B") when TLA+ has no literal for it;   *)
(* text that the code only tests for emptiness and passes on (the widgets' *)
(* values) is a TLA+ string.                                               *)
(***************************************************************************)
EXTENDS Integers, Sequences, FiniteSets, TLC

(***************************************************************************)
(* Bounds of the model.                                                    *)
(***************************************************************************)
\* longest response, in pieces, given to the parser on its own
MaxPieces == 4
\* longest free-form response, in pieces, a query completion call returns
RespPieces == 1
\* largest attempt count a direct call of invoke_with_retry is given
MaxRetries == 4
\* largest delay a direct call of invoke_with_retry is given
MaxDelay == 2

(***************************************************************************)
(* Program constants.                                                      *)
(***************************************************************************)
\* invoke_with_retry(..., retries=3, delay=2)
DefaultRetries == 3
DefaultDelay == 2

(***************************************************************************)
(* Text.                                                                   *)
(***************************************************************************)
CODE_OPEN == <<"[", "C", "O", "D", "E", "]">>
CODE_CLOSE == <<"[", "E", "N", "D", " ", "C", "O", "D", "E", "]">>
TEST_OPEN == <<"[", "T", "E", "S", "T", " ", "R", "E", "S", "U", "L", "T", "S", "]">>
TEST_CLOSE ==
    <<"[", "E", "N", "D", " ", "T", "E", "S", "T", " ", "R", "E", "S", "U", "L", "T", "S", "]">>
NO_CODE_FOUND == <<"N", "o", " ", "c", "o", "d", "e", " ", "f", "o", "u", "n", "d", ".">>
NONE_TEXT == <<"N", "o", "n", "e">>

\* the characters str.strip() removes: those for which str.isspace() is true.
\* A character TLA+ has no literal for is written by its code point.
Whitespace ==
    {"\t", "\n", "U+000B", "\f", "\r", "U+001C", "U+001D", "U+001E", "U+001F", " ",
     "U+0085", "U+00A0", "U+1680", "U+2000", "U+2001", "U+2002", "U+2003", "U+2004",
     "U+2005", "U+2006", "U+2007", "U+2008", "U+2009", "U+200A", "U+2028", "U+2029",
     "U+202F", "U+205F", "U+3000"}

\* s[i..] starts with lit (i is 1-based)
MatchAt(s, lit, i) ==
    /\ i >= 1
    /\ i + Len(lit) - 1 <= Len(s)
    /\ \A k \in 1..Len(lit) : s[i + k - 1] = lit[k]

\* str.strip()
RECURSIVE LStrip(_)
LStrip(s) ==
    IF s # <<>> /\ Head(s) \in Whitespace THEN LStrip(Tail(s)) ELSE s

RECURSIVE RStrip(_)
RStrip(s) ==
    IF s # <<>> /\ s[Len(s)] \in Whitespace
    THEN RStrip(SubSeq(s, 1, Len(s) - 1))
    ELSE s

Strip(s) == RStrip(LStrip(s))

(***************************************************************************)
(* re.search(open (.*?) close, s, flags): the regex engine tries the start *)
(* positions from the left; at a start position the literal open must      *)
(* match, then the lazy group grows one character at a time until the      *)
(* literal close matches.  '.' matches every character with re.DOTALL and  *)
(* every character but a newline without.                                  *)
(***************************************************************************)
\* the position where close matches after a lazy group starting at p, or 0
RECURSIVE LazyEnd(_, _, _, _)
LazyEnd(s, p, close, dotall) ==
    IF MatchAt(s, close, p) THEN p
    ELSE IF p > Len(s) THEN 0
    ELSE IF ~dotall /\ s[p] = "\n" THEN 0
    ELSE LazyEnd(s, p + 1, close, dotall)

RECURSIVE SearchFrom(_, _, _, _, _)
SearchFrom(s, i, open, close, dotall) ==
    IF i > Len(s) THEN [found |-> FALSE, group |-> <<>>]
    ELSE LET p == i + Len(open)
             e == IF ~MatchAt(s, open, i) THEN 0
                  ELSE LazyEnd(s, p, close, dotall)
         IN  IF e # 0
             THEN [found |-> TRUE, group |-> SubSeq(s, p, e - 1)]
             ELSE SearchFrom(s, i + 1, open, close, dotall)

re_search(open, close, s, dotall) == SearchFrom(s, 1, open, close, dotall)

\* a parser whose pattern lacks re.DOTALL
extract_no_dotall(response) ==
    LET code_match == re_search(CODE_OPEN, CODE_CLOSE, response, FALSE)
        test_match == re_search(TEST_OPEN, TEST_CLOSE, response, FALSE)
    IN  [code |-> IF code_match.found THEN Strip(code_match.group) ELSE NO_CODE_FOUND,
         test_results |-> IF test_match.found THEN Strip(test_match.group) ELSE <<>>]

\* extract_code_and_tests(response), for a response that is a str
extract_code_and_tests(response) ==
    LET code_match == re_search(CODE_OPEN, CODE_CLOSE, response, TRUE)
        test_match == re_search(TEST_OPEN, TEST_CLOSE, response, TRUE)
    IN  [code |-> IF code_match.found THEN Strip(code_match.group) ELSE NO_CODE_FOUND,
         test_results |-> IF test_match.found THEN Strip(test_match.group) ELSE <<>>]

(***************************************************************************)
(* Values.  A Python value the code only tests for truth and hands on is a *)
(* record [kind, text]: None, a str (text holds its characters) or a value *)
(* of another type that is true ("obj": a message object, a dict, ...).    *)
(***************************************************************************)
NoneVal == [kind |-> "none", text |-> <<>>]
ObjVal == [kind |-> "obj", text |-> <<>>]
Unbound == [kind |-> "unbound", text |-> <<>>]
Str(t) == [kind |-> "str", text |-> t]

\* bool(v)
Truthy(v) ==
    CASE v.kind = "none" -> FALSE
      [] v.kind = "str" -> v.text # <<>>
      [] OTHER -> TRUE

(***************************************************************************)
(* The inputs the environment supplies.                                    *)
(***************************************************************************)
Pieces == {CODE_OPEN, CODE_CLOSE, TEST_OPEN, TEST_CLOSE, <<"x">>, <<" ">>, <<"\n">>}
\* the pieces of the texts given to the parser on its own
ParsePieces == Pieces \cup {<<"\f">>}

\* the texts made of at most n pieces of P
RECURSIVE Texts(_, _)
Texts(P, n) ==
    IF n = 0 THEN {<<>>}
    ELSE LET T == Texts(P, n - 1) IN T \cup {t \o p : t \in T, p \in P}

\* responses in the format the prompt asks for, whole or in part
SampleResponses ==
    {CODE_OPEN \o <<"\n", "x", "\n">> \o CODE_CLOSE \o <<"\n">>
        \o TEST_OPEN \o <<"\n">> \o NONE_TEXT \o <<"\n">> \o TEST_CLOSE,
     CODE_OPEN \o <<"x">> \o CODE_CLOSE \o TEST_OPEN \o <<" ", "x", "\n", "x">> \o TEST_CLOSE,
     CODE_OPEN \o <<"x", " ", "x">> \o CODE_CLOSE,
     TEST_OPEN \o NONE_TEXT \o TEST_CLOSE,
     <<"x">> \o TEST_OPEN \o <<"x">> \o TEST_CLOSE,
     <<"[", "c", "o", "d", "e", "]", "x", "[", "e", "n", "d", " ", "c", "o", "d", "e", "]">>,
     <<"[">> \o CODE_OPEN \o <<"\t", "x", "\r", "\n">> \o CODE_CLOSE \o <<"]">>,
     TEST_OPEN \o <<"\f">> \o NONE_TEXT \o <<"\f">> \o TEST_CLOSE,
     CODE_OPEN \o <<" ", "\f", "x">> \o CODE_CLOSE,
     CODE_OPEN \o <<"U+000B", "x", "U+00A0", "x", "U+0085">> \o CODE_CLOSE,
     TEST_OPEN \o <<"U+3000">> \o NONE_TEXT \o <<"U+2028", "U+001F">> \o TEST_CLOSE}

\* what chain.run(...) may return
RunResults ==
    {Str(t) : t \in Texts(Pieces, RespPieces) \cup SampleResponses} \cup {NoneVal, ObjVal}

\* what llm.invoke("test input") may return
ProbeResults == {NoneVal, Str(<<>>), Str(<<"x">>), ObjVal}

\* the exceptions a completion call may raise, all subclasses of Exception
ExcTypes == {"KeyError", "TimeoutError"}

\* isinstance(e, Exception), for the exceptions of the model
IsException(e) == e \in {"KeyError", "TimeoutError", "TypeError", "ValueError"}

Keys == {"", "k1", "k2"}

\* ChatGoogleGenerativeAI(model="gemini-1.5-pro", api_key=...), lines 40 and 68:
\* what a call of the constructor may do: return the client ("none") or raise.
\* The class is library code; each call of it may do either, whatever the
\* other call did.
ClientOutcomes == {"none", "ValueError"}
Inputs == {"", "palindrome"}
Testcases == {"", "t1"}
NO_TESTCASES == "No testcases provided"

VARIABLES
    pc,            \* the statement the running function is at; "idle": none runs
    frame,         \* the function called: "none", "main", "invoke", "parse"
    api_key,       \* main: value of the credential text input
    valid,         \* main: result of valid_api(api_key)
    user_input,    \* main: value of the Query text input
    user_testcase, \* main: value of the Testcases text input
    response,      \* main, extract_code_and_tests: the response
    code,          \* result of extract_code_and_tests
    test_results,  \* result of extract_code_and_tests
    exc,           \* main: the exception raised in the try block, or "none"
    query,         \* invoke_with_retry: argument
    testcase,      \* invoke_with_retry: argument
    retries,       \* invoke_with_retry: argument
    delay,         \* invoke_with_retry: argument
    attempt,       \* invoke_with_retry: loop variable
    ret,           \* invoke_with_retry: returned value
    escaped,       \* the exception that left the function called, or "none"
    calls,         \* the calls made since the function was called: probe, run, sleep, parse
    ui             \* the st.* calls made since the function was called

vars ==
    <<pc, frame, api_key, valid, user_input, user_testcase, response, code,
      test_results, exc, query, testcase, retries, delay, attempt, ret, escaped, calls, ui>>

mainLocals == <<api_key, valid, user_input, user_testcase, response, exc>>
parsed == <<code, test_results>>
invokeArgs == <<query, testcase, retries, delay>>

\* an entry of calls
Call(ev, e, v, q, t, secs) ==
    [ev |-> ev, exc |-> e, value |-> v, query |-> q, testcases |-> t, secs |-> secs]
ProbeCall(key, e, v) == Call("probe", e, v, key, "", 0)
RunCall(e, v) == Call("run", e, v, query, testcase, 0)
SleepCall(secs) == Call("sleep", "none", Unbound, "", "", secs)
ParseCall(v) == Call("parse", "none", v, "", "", 0)

\* an entry of ui
Ui(fn, text, n, e, body) == [fn |-> fn, text |-> text, n |-> n, e |-> e, body |-> body]
UiText(fn, text) == Ui(fn, text, 0, "none", <<>>)

Init ==
    /\ pc = "idle"
    /\ frame = "none"
    /\ api_key = ""
    /\ valid = FALSE
    /\ user_input = ""
    /\ user_testcase = ""
    /\ response = Unbound
    /\ code = <<>>
    /\ test_results = <<>>
    /\ exc = "none"
    /\ query = ""
    /\ testcase = ""
    /\ retries = DefaultRetries
    /\ delay = DefaultDelay
    /\ attempt = 0
    /\ ret = Unbound
    /\ escaped = "none"
    /\ calls = <<>>
    /\ ui = <<>>

(***************************************************************************)
(* valid_api(apikey).  o is what lines 40-41 did inside the try block:     *)
(* o.probed tells whether llm.invoke("test input") was called at all (it   *)
(* is not when the constructor of line 40 raises), o.exc is the exception  *)
(* raised by the constructor or by the call, o.value what the call         *)
(* returned.  The result is what valid_api does in turn: it raises exc, or *)
(* returns value.                                                          *)
(***************************************************************************)
ProbeOutcomes ==
    {[probed |-> FALSE, exc |-> e, value |-> Unbound] : e \in ClientOutcomes \ {"none"}}
        \cup {[probed |-> TRUE, exc |-> "none", value |-> v] : v \in ProbeResults}
        \cup {[probed |-> TRUE, exc |-> e, value |-> Unbound] : e \in ExcTypes}

\* a valid_api that takes every answer of the probe for a valid key
valid_api_any_answer(o) ==
    IF o.exc = "none" THEN [exc |-> "none", value |-> TRUE]
    ELSE IF IsException(o.exc) THEN [exc |-> "none", value |-> FALSE]
    ELSE [exc |-> o.exc, value |-> FALSE]

valid_api(o) ==
    IF o.exc = "none" THEN [exc |-> "none", value |-> Truthy(o.value)]
    ELSE IF IsException(o.exc) THEN [exc |-> "none", value |-> FALSE]
    ELSE [exc |-> o.exc, value |-> FALSE]

(***************************************************************************)
(* invoke_with_retry(chain, session_id, query, testcase, retries, delay)   *)
(***************************************************************************)
\* return v to the caller
InvokeReturn(v) ==
    /\ ret' = v
    /\ IF frame = "main"
       THEN /\ response' = v
            /\ pc' = "m155"
       ELSE /\ response' = response
            /\ pc' = "idle"
    /\ UNCHANGED <<exc, escaped>>

\* raise e to the caller, whose call is in main's try block
InvokeRaise(e) ==
    /\ IF frame = "main"
       THEN /\ exc' = e
            /\ pc' = "m172"
            /\ escaped' = escaped
       ELSE /\ exc' = exc
            /\ pc' = "idle"
            /\ escaped' = e
    /\ UNCHANGED <<ret, response>>

\* a loop without the return of line 52
AttemptReturnsNoReturn ==
    /\ pc = "i48"
    /\ attempt < retries
    /\ \E v \in RunResults :
        /\ calls' = Append(calls, RunCall("none", v))
        /\ IF attempt + 1 < retries
           THEN /\ attempt' = attempt + 1
                /\ UNCHANGED <<pc, ret, response, exc, escaped>>
           ELSE /\ attempt' = attempt
                /\ InvokeReturn(NoneVal)
    /\ UNCHANGED <<frame, api_key, valid, user_input, user_testcase, parsed, invokeArgs, ui>>

\* lines 48-52: chain.run returns and its result is returned
AttemptReturns ==
    /\ pc = "i48"
    /\ attempt < retries
    /\ \E v \in RunResults :
        /\ calls' = Append(calls, RunCall("none", v))
        /\ InvokeReturn(v)
    /\ UNCHANGED <<frame, api_key, valid, user_input, user_testcase, parsed, invokeArgs,
                   attempt, ui>>

\* a retry whose delay grows with the attempt
AttemptRaisesBackoff ==
    /\ pc = "i48"
    /\ attempt < retries
    /\ attempt < retries - 1
    /\ \E e \in ExcTypes :
        calls' = calls \o <<RunCall(e, Unbound), SleepCall(delay * (attempt + 1))>>
    /\ attempt' = attempt + 1
    /\ UNCHANGED <<pc, frame, mainLocals, parsed, invokeArgs, ret, escaped, ui>>

\* lines 48-55: chain.run raises and attempts remain: sleep, next attempt
AttemptRaises ==
    /\ pc = "i48"
    /\ attempt < retries
    /\ attempt < retries - 1
    /\ \E e \in ExcTypes :
        calls' = calls \o <<RunCall(e, Unbound), SleepCall(delay)>>
    /\ attempt' = attempt + 1
    /\ UNCHANGED <<pc, frame, mainLocals, parsed, invokeArgs, ret, escaped, ui>>

\* a last attempt that lets the exception through
LastAttemptRaisesReraise ==
    /\ pc = "i48"
    /\ attempt < retries
    /\ ~(attempt < retries - 1)
    /\ \E e \in ExcTypes :
        /\ calls' = Append(calls, RunCall(e, Unbound))
        /\ InvokeRaise(e)
    /\ UNCHANGED <<frame, api_key, valid, user_input, user_testcase, parsed, invokeArgs,
                   attempt, ui>>

\* lines 48-53, 56-58: chain.run raises on the last attempt: st.error, return None
LastAttemptRaises ==
    /\ pc = "i48"
    /\ attempt < retries
    /\ ~(attempt < retries - 1)
    /\ \E e \in ExcTypes :
        /\ calls' = Append(calls, RunCall(e, Unbound))
        /\ ui' = Append(ui, Ui("error", "Agent failed after {retries} attempts: {e}",
                               retries, e, <<>>))
    /\ InvokeReturn(NoneVal)
    /\ UNCHANGED <<frame, api_key, valid, user_input, user_testcase, parsed, invokeArgs,
                   attempt>>

\* invoke_with_retry called on its own, with a configuration of the caller's choice
DirectInvoke ==
    /\ pc = "idle"
    /\ pc' = "i48"
    /\ frame' = "invoke"
    /\ query' = "palindrome"
    /\ testcase' \in {"t1", NO_TESTCASES}
    /\ retries' \in 1..MaxRetries
    /\ delay' \in 0..MaxDelay
    /\ attempt' = 0
    /\ ret' = Unbound
    /\ escaped' = "none"
    /\ calls' = <<>>
    /\ ui' = <<>>
    /\ api_key' = ""
    /\ valid' = FALSE
    /\ user_input' = ""
    /\ user_testcase' = ""
    /\ response' = Unbound
    /\ exc' = "none"
    /\ code' = <<>>
    /\ test_results' = <<>>

(***************************************************************************)
(* main(): one run of the script.  Streamlit runs it again from the top    *)
(* for the next interaction, so a run that ends leaves the session waiting *)
(* for input.                                                              *)
(***************************************************************************)
\* lines 61-64: the title and the credential input
MainStart ==
    /\ pc = "idle"
    /\ pc' = "m66"
    /\ frame' = "main"
    /\ api_key' \in Keys
    /\ ui' = <<UiText("title", "Python Code Assistant")>>
    /\ calls' = <<>>
    /\ valid' = FALSE
    /\ user_input' = ""
    /\ user_testcase' = ""
    /\ response' = Unbound
    /\ exc' = "none"
    /\ escaped' = "none"
    /\ ret' = Unbound
    /\ attempt' = 0
    /\ code' = <<>>
    /\ test_results' = <<>>
    /\ query' = ""
    /\ testcase' = ""
    /\ retries' = DefaultRetries
    /\ delay' = DefaultDelay

\* lines 66, 178-179: no credential entered
MainNoKey ==
    /\ pc = "m66"
    /\ api_key = ""
    /\ ui' = Append(ui, UiText("info", "Please enter your Gemini API key to start."))
    /\ pc' = "idle"
    /\ UNCHANGED <<frame, mainLocals, parsed, invokeArgs, attempt, ret, escaped, calls>>

\* lines 66-67 (38-44): valid_api(api_key), called outside the try block
MainValidate ==
    /\ pc = "m66"
    /\ api_key # ""
    /\ \E o \in ProbeOutcomes :
        /\ calls' = IF o.probed
                     THEN Append(calls, ProbeCall(api_key, o.exc, o.value))
                     ELSE calls
        /\ LET r == valid_api(o)
           IN  IF r.exc = "none"
               THEN /\ valid' = r.value
                    /\ pc' = "m67"
                    /\ escaped' = escaped
               ELSE /\ valid' = valid
                    /\ pc' = "idle"
                    /\ escaped' = r.exc
    /\ UNCHANGED <<frame, api_key, user_input, user_testcase, response, exc, parsed,
                   invokeArgs, attempt, ret, ui>>

\* lines 67, 176-177: the credential is invalid
MainInvalid ==
    /\ pc = "m67"
    /\ ~valid
    /\ ui' = Append(ui, UiText("error", "Invalid API Key. Please try again."))
    /\ pc' = "idle"
    /\ UNCHANGED <<frame, mainLocals, parsed, invokeArgs, attempt, ret, escaped, calls>>

\* a gate that lets every entered credential through
MainSetupUngated ==
    /\ pc = "m67"
    /\ \E c \in ClientOutcomes :
        IF c = "none"
        THEN /\ ui' = Append(ui, UiText("header", "Enter Your Query"))
             /\ user_input' \in Inputs
             /\ user_testcase' \in Testcases
             /\ pc' = "m143"
             /\ escaped' = escaped
        ELSE \* line 68 is outside every try block: the exception leaves main()
             /\ escaped' = c
             /\ pc' = "idle"
             /\ UNCHANGED <<ui, user_input, user_testcase>>
    /\ UNCHANGED <<frame, api_key, valid, response, exc, parsed, invokeArgs, attempt, ret,
                   calls>>

\* lines 67-141: the credential is valid: llm, prompt, chain, and the query inputs
MainSetup ==
    /\ pc = "m67"
    /\ valid
    /\ \E c \in ClientOutcomes :
        IF c = "none"
        THEN /\ ui' = Append(ui, UiText("header", "Enter Your Query"))
             /\ user_input' \in Inputs
             /\ user_testcase' \in Testcases
             /\ pc' = "m143"
             /\ escaped' = escaped
        ELSE \* line 68 is outside every try block: the exception leaves main()
             /\ escaped' = c
             /\ pc' = "idle"
             /\ UNCHANGED <<ui, user_input, user_testcase>>
    /\ UNCHANGED <<frame, api_key, valid, response, exc, parsed, invokeArgs, attempt, ret,
                   calls>>

\* line 143, condition false: no query entered
MainNoQuery ==
    /\ pc = "m143"
    /\ user_input = ""
    /\ pc' = "idle"
    /\ UNCHANGED <<frame, mainLocals, parsed, invokeArgs, attempt, ret, escaped, calls, ui>>

\* line 146
testcase_value(t) == IF t # "" THEN t ELSE NO_TESTCASES

\* a call made for every value of the Query input
MainInvokeAlways ==
    /\ pc = "m143"
    /\ query' = user_input
    /\ testcase' = testcase_value(user_testcase)
    /\ retries' = DefaultRetries
    /\ delay' = DefaultDelay
    /\ attempt' = 0
    /\ pc' = "i48"
    /\ UNCHANGED <<frame, mainLocals, parsed, ret, escaped, calls, ui>>

\* lines 143-154: a query was entered: call invoke_with_retry with the defaults
MainInvoke ==
    /\ pc = "m143"
    /\ user_input # ""
    /\ query' = user_input
    /\ testcase' = testcase_value(user_testcase)
    /\ retries' = DefaultRetries
    /\ delay' = DefaultDelay
    /\ attempt' = 0
    /\ pc' = "i48"
    /\ UNCHANGED <<frame, mainLocals, parsed, ret, escaped, calls, ui>>

\* a test for None alone
HasResponseNotNone(v) == v.kind # "none"

\* line 155
HasResponse(v) == Truthy(v)

\* lines 155-156: extract_code_and_tests(response); re.search raises TypeError
\* for a response that is no str
MainParse ==
    /\ pc = "m155"
    /\ HasResponse(response)
    /\ calls' = Append(calls, ParseCall(response))
    /\ IF response.kind = "str"
       THEN /\ LET r == extract_code_and_tests(response.text)
               IN  /\ code' = r.code
                   /\ test_results' = r.test_results
            /\ pc' = "m159"
            /\ exc' = exc
       ELSE /\ UNCHANGED parsed
            /\ pc' = "m172"
            /\ exc' = "TypeError"
    /\ UNCHANGED <<frame, api_key, valid, user_input, user_testcase, response, invokeArgs,
                   attempt, ret, escaped, ui>>

\* a test that hides the empty test results too
ShowTestsNonEmpty(t) == t # NONE_TEXT /\ t # <<>>

\* line 163
ShowTests(t) == t # NONE_TEXT

\* lines 158-165, 170: render the code and the test results, del response
MainPresent ==
    /\ pc = "m159"
    /\ ui' = ui \o <<UiText("subheader", "Generated Code:"),
                     Ui("code", "", 0, "none", code)>>
                \o (IF ShowTests(test_results)
                    THEN <<UiText("subheader", "Test Results:"),
                           Ui("write", "", 0, "none", test_results)>>
                    ELSE <<>>)
    /\ response' = Unbound
    /\ pc' = "idle"
    /\ UNCHANGED <<frame, api_key, valid, user_input, user_testcase, exc, parsed,
                   invokeArgs, attempt, ret, escaped, calls>>

\* lines 155, 166-170: no response
MainFailed ==
    /\ pc = "m155"
    /\ ~HasResponse(response)
    /\ ui' = Append(ui, UiText("error", "Failed to process the query."))
    /\ response' = Unbound
    /\ pc' = "idle"
    /\ UNCHANGED <<frame, api_key, valid, user_input, user_testcase, exc, parsed,
                   invokeArgs, attempt, ret, escaped, calls>>

\* a handler with the KeyError clause alone
MainExceptKeyErrorOnly ==
    /\ pc = "m172"
    /\ IF exc = "KeyError"
       THEN /\ ui' = Append(ui, Ui("error", "Error: Missing key in response - {e}",
                                   0, exc, <<>>))
            /\ escaped' = escaped
       ELSE /\ ui' = ui
            /\ escaped' = exc
    /\ pc' = "idle"
    /\ UNCHANGED <<frame, mainLocals, parsed, invokeArgs, attempt, ret, calls>>

\* lines 172-175: the except clauses of the try block
MainExcept ==
    /\ pc = "m172"
    /\ IF exc = "KeyError"
       THEN /\ ui' = Append(ui, Ui("error", "Error: Missing key in response - {e}",
                                   0, exc, <<>>))
            /\ escaped' = escaped
       ELSE IF IsException(exc)
       THEN /\ ui' = Append(ui, Ui("error", "Unexpected error: {str(e)}", 0, exc, <<>>))
            /\ escaped' = escaped
       ELSE /\ ui' = ui
            /\ escaped' = exc
    /\ pc' = "idle"
    /\ UNCHANGED <<frame, mainLocals, parsed, invokeArgs, attempt, ret, calls>>

(***************************************************************************)
(* extract_code_and_tests called on its own, on a response text.           *)
(***************************************************************************)
\* lines 118-136
ParseExtract ==
    /\ pc = "p118"
    /\ LET r == extract_code_and_tests(response.text)
       IN  /\ code' = r.code
           /\ test_results' = r.test_results
    /\ pc' = "p136"
    /\ UNCHANGED <<frame, mainLocals, invokeArgs, attempt, ret, escaped, calls, ui>>

InitParse ==
    /\ pc = "p118"
    /\ frame = "parse"
    /\ response \in {Str(t) : t \in Texts(ParsePieces, MaxPieces) \cup SampleResponses}
    /\ api_key = ""
    /\ valid = FALSE
    /\ user_input = ""
    /\ user_testcase = ""
    /\ code = <<>>
    /\ test_results = <<>>
    /\ exc = "none"
    /\ query = ""
    /\ testcase = ""
    /\ retries = DefaultRetries
    /\ delay = DefaultDelay
    /\ attempt = 0
    /\ ret = Unbound
    /\ escaped = "none"
    /\ calls = <<>>
    /\ ui = <<>>

NextParse == ParseExtract

SpecParse == InitParse /\ [][NextParse]_vars

(***************************************************************************)
(* The session: runs of main() and direct calls of invoke_with_retry.      *)
(***************************************************************************)
Next ==
    \/ MainStart
    \/ MainNoKey
    \/ MainValidate
    \/ MainInvalid
    \/ MainSetup
    \/ MainNoQuery
    \/ MainInvoke
    \/ AttemptReturns
    \/ AttemptRaises
    \/ LastAttemptRaises
    \/ MainParse
    \/ MainPresent
    \/ MainFailed
    \/ MainExcept
    \/ DirectInvoke

Spec == Init /\ [][Next]_vars

\* the steps of a function that was called: the interpreter runs it to its end
RunStep ==
    \/ MainNoKey
    \/ MainValidate
    \/ MainInvalid
    \/ MainSetup
    \/ MainNoQuery
    \/ MainInvoke
    \/ AttemptReturns
    \/ AttemptRaises
    \/ LastAttemptRaises
    \/ MainParse
    \/ MainPresent
    \/ MainFailed
    \/ MainExcept

\* the script is run once: main() is called and runs to its end
NextRun ==
    \/ frame = "none" /\ MainStart
    \/ RunStep

FairSpec == Init /\ [][NextRun]_vars /\ WF_vars(RunStep)

(***************************************************************************)
(* Reading the record of a call.                                           *)
(***************************************************************************)
IsRun(c) == c.ev = "run"
IsSleep(c) == c.ev = "sleep"
IsProbe(c) == c.ev = "probe"
IsParse(c) == c.ev = "parse"
Runs == SelectSeq(calls, IsRun)
Sleeps == SelectSeq(calls, IsSleep)
Probes == SelectSeq(calls, IsProbe)
Parses == SelectSeq(calls, IsParse)
FailedRuns == {i \in 1..Len(Runs) : Runs[i].exc # "none"}
Min2(a, b) == IF a < b THEN a ELSE b

\* invoke_with_retry was called and is no longer running
InvokeEnded == frame \in {"main", "invoke"} /\ Len(Runs) > 0 /\ pc # "i48"
\* main() has ended
MainEnded == frame = "main" /\ pc = "idle"
UiHas(fn, text) == \E i \in 1..Len(ui) : ui[i].fn = fn /\ ui[i].text = text
UiFns(fn) == {i \in 1..Len(ui) : ui[i].fn = fn}
LastUi == ui[Len(ui)]

(***************************************************************************)
(* C1: a completion call that does not raise ends invoke_with_retry: it is *)
(* the last call made, it is made within the configured attempts, its      *)
(* result is returned unchanged and nothing is raised; so when the first   *)
(* call that does not raise is the k-th, exactly k calls are made.         *)
(***************************************************************************)
C1_FirstSuccessReturned ==
    /\ Len(Runs) <= retries
    /\ \A k \in 1..Len(Runs) :
        Runs[k].exc = "none" =>
            /\ k = Len(Runs)
            /\ pc # "i48"
            /\ ret = Runs[k].value
            /\ escaped = "none"

\* fail, fail, succeed with retries = 3: three calls, the third call's result
C1_Witness ==
    /\ frame = "invoke"
    /\ pc = "idle"
    /\ retries = 3
    /\ Len(Runs) = 3
    /\ Runs[1].exc # "none"
    /\ Runs[2].exc # "none"
    /\ Runs[3].exc = "none"
    /\ ret = Runs[3].value
    /\ Truthy(ret)

(***************************************************************************)
(* C2: when every completion call raised and invoke_with_retry has ended,  *)
(* it made exactly retries calls, reported "Agent failed after {retries}   *)
(* attempts" with the last exception, returned None and raised nothing;    *)
(* main() then ends with "Failed to process the query." and no exception.  *)
(***************************************************************************)
C2_Exhaustion ==
    (InvokeEnded /\ FailedRuns = 1..Len(Runs)) =>
        /\ Len(Runs) = retries
        /\ ret = NoneVal
        /\ escaped = "none"
        /\ exc = "none"
        /\ \E i \in 1..Len(ui) :
            /\ ui[i] = Ui("error", "Agent failed after {retries} attempts: {e}",
                          retries, Runs[Len(Runs)].exc, <<>>)
            /\ \A j \in UiFns("error") : j >= i
        /\ Parses = <<>>
        /\ MainEnded => LastUi = UiText("error", "Failed to process the query.")

C2_Witness ==
    /\ MainEnded
    /\ Len(Runs) = 3
    /\ FailedRuns = {1, 2, 3}
    /\ ret = NoneVal
    /\ LastUi = UiText("error", "Failed to process the query.")

(***************************************************************************)
(* C9: every sleep of invoke_with_retry comes directly after a completion  *)
(* call that raised and is followed by another call (or the loop is still  *)
(* running, about to make it), and lasts delay; so there is no sleep       *)
(* before the first call, after a call that returned or after the last     *)
(* call, and a call of invoke_with_retry with f failed attempts sleeps     *)
(* min(f, retries - 1) times.                                              *)
(***************************************************************************)
C9_SleepsBetweenAttempts ==
    /\ \A i \in 1..Len(calls) :
        IsSleep(calls[i]) =>
            /\ i > 1
            /\ IsRun(calls[i - 1])
            /\ calls[i - 1].exc # "none"
            /\ calls[i].secs = delay
            /\ IF i < Len(calls)
               THEN IsRun(calls[i + 1])
               ELSE pc = "i48" /\ attempt < retries
    /\ InvokeEnded => Len(Sleeps) = Min2(Cardinality(FailedRuns), retries - 1)

\* three failed attempts of three: two sleeps of the configured delay
C9_Witness ==
    /\ frame = "invoke"
    /\ pc = "idle"
    /\ retries = 3
    /\ delay = 1
    /\ Cardinality(FailedRuns) = 3
    /\ Len(Sleeps) = 2
    /\ Sleeps[1].secs = 1
    /\ Sleeps[2].secs = 1

(***************************************************************************)
(* C3, as the specification states it: no exception leaves main(), and a   *)
(* run of main() that has called the completion service for a query ends,  *)
(* whatever the calls and the parser did, with an error message or the     *)
(* rendered result as the last thing shown, no exception escaped, and the  *)
(* session idle: the next run can start.  It fails when the constructor of *)
(* line 68, which is outside the try block, raises.                        *)
(***************************************************************************)
ResultShown == ui # <<>> /\ LastUi.fn \in {"error", "code", "write"}

C4_ParserOnlyOnResponse ==
    /\ \A i \in 1..Len(Parses) :
        /\ Parses[i].value = ret
        /\ Parses[i].value \notin {NoneVal, Str(<<>>), Unbound}
    /\ (frame = "main" /\ ret \in {NoneVal, Str(<<>>)}) =>
        /\ Parses = <<>>
        /\ UiFns("code") = {}
        /\ UiFns("write") = {}
        /\ pc \in {"m155", "idle"}
        /\ pc = "idle" => LastUi = UiText("error", "Failed to process the query.")

\* an empty text from a call that returned
C4_Witness ==
    /\ MainEnded
    /\ Len(Runs) = 1
    /\ Runs[1].exc = "none"
    /\ ret = Str(<<>>)
    /\ Parses = <<>>
    /\ LastUi = UiText("error", "Failed to process the query.")

(***************************************************************************)
(* C5: in a run of main() there is at most one probe; the query inputs are *)
(* shown and a query completion call is made only after the probe of this  *)
(* run, made with the credential entered, returned a true value; after a   *)
(* probe that raised or returned nothing the run makes no completion call, *)
(* shows no query inputs and ends with "Invalid API Key. Please try        *)
(* again.".                                                                *)
(***************************************************************************)
ProbeSaidValid(c) == IsProbe(c) /\ c.exc = "none" /\ c.value \notin {NoneVal, Str(<<>>)}

C5_GatedByCredential ==
    frame = "main" =>
        /\ Len(Probes) <= 1
        /\ (Runs # <<>> \/ UiHas("header", "Enter Your Query")
                \/ pc \in {"m143", "i48", "m155", "m159", "m172"}) =>
            /\ calls # <<>>
            /\ ProbeSaidValid(calls[1])
            /\ calls[1].query = api_key
            /\ api_key # ""
        /\ (Probes # <<>> /\ ~ProbeSaidValid(Probes[1])) =>
            /\ Runs = <<>>
            /\ ~UiHas("header", "Enter Your Query")
            /\ pc \in {"m67", "idle"}
            /\ pc = "idle" => LastUi = UiText("error", "Invalid API Key. Please try again.")

\* the probe returned the empty text
C5_Witness ==
    /\ MainEnded
    /\ api_key = "k2"
    /\ Len(Probes) = 1
    /\ Probes[1].exc = "none"
    /\ Probes[1].value = Str(<<>>)
    /\ Runs = <<>>
    /\ LastUi = UiText("error", "Invalid API Key. Please try again.")

(***************************************************************************)
(* C6, as the specification states it: once valid_api was called in a run  *)
(* of main(), exactly one probe call was made, no exception left           *)
(* valid_api, and its result is True exactly when the probe returned a     *)
(* value other than None and the empty text.  It fails when the            *)
(* constructor of line 40 raises: valid_api returns False without a probe. *)
(***************************************************************************)
C6_ExactlyOneProbe ==
    (frame = "main" /\ api_key # "" /\ pc # "m66") =>
        /\ Len(Probes) = 1
        /\ calls[1] = Probes[1]
        /\ (pc = "m67" \/ ~valid) => escaped = "none"
        /\ valid = ProbeSaidValid(Probes[1])

(***************************************************************************)
(* C6, amended: once valid_api was called in a run of main(), at most one  *)
(* probe call was made: one, the first call of the run, or none at all,    *)
(* which is what happens when the constructor of line 40 raises.  No       *)
(* exception left valid_api (when it has just returned, and in a run where *)
(* it returned False, nothing has escaped), and its result is True exactly *)
(* when the probe was made and returned a value other than None and the    *)
(* empty text: it is False when no probe was made, when the probe raised   *)
(* and when the probe returned None or the empty text.                     *)
(***************************************************************************)
C6_ValidExactlyOnAnswer ==
    (frame = "main" /\ api_key # "" /\ pc # "m66") =>
        /\ Len(Probes) <= 1
        /\ Probes # <<>> => calls[1] = Probes[1]
        /\ Probes = <<>> => calls = <<>>
        /\ (pc = "m67" \/ ~valid) => escaped = "none"
        /\ valid = (Probes # <<>> /\ ProbeSaidValid(Probes[1]))

\* the constructor raised: valid_api has returned False and made no probe
C6_Witness ==
    /\ frame = "main"
    /\ pc = "m67"
    /\ api_key = "k1"
    /\ Probes = <<>>
    /\ calls = <<>>
    /\ valid = FALSE
    /\ escaped = "none"

C10_SentinelAndRendering ==
    frame = "main" =>
        /\ \A i \in 1..Len(Runs) :
            /\ Runs[i].query = user_input
            /\ Runs[i].testcases = (IF user_testcase = "" THEN "No testcases provided"
                                    ELSE user_testcase)
        /\ (pc = "idle" /\ ret.kind = "str" /\ ret.text # <<>>) =>
            /\ \E i \in 1..Len(ui) :
                /\ ui[i] = Ui("code", "", 0, "none", code)
                /\ UiFns("code") = {i}
                /\ ui[i - 1] = UiText("subheader", "Generated Code:")
            /\ (test_results = NONE_TEXT) <=> (UiFns("write") = {})
            /\ UiFns("write") # {} =>
                /\ LastUi = Ui("write", "", 0, "none", test_results)
                /\ ui[Len(ui) - 1] = UiText("subheader", "Test Results:")
                /\ Cardinality(UiFns("write")) = 1

\* no testcases entered, and the response's test results are "None"
C10_Witness ==
    /\ MainEnded
    /\ user_testcase = ""
    /\ Len(Runs) = 1
    /\ Runs[1].testcases = "No testcases provided"
    /\ test_results = NONE_TEXT
    /\ code = <<"x">>
    /\ LastUi = Ui("code", "", 0, "none", <<"x">>)

(***************************************************************************)
(* C8: extract_code_and_tests returns for every response text; code is the *)
(* text between the first [CODE] and the nearest [END CODE] after it,      *)
(* without the whitespace around it, or "No code found." when there is no  *)
(* such pair; test_results is the same for [TEST RESULTS] and              *)
(* [END TEST RESULTS], or the empty text; each result is stated from its   *)
(* own pair of markers alone.                                              *)
(***************************************************************************)
Occurrences(s, lit) == {i \in 1..Len(s) : MatchAt(s, lit, i)}
Least(S) == CHOOSE m \in S : \A x \in S : m <= x

\* the text between the first open and the nearest close after it
Between(s, open, close) ==
    IF Occurrences(s, open) = {} THEN [found |-> FALSE, text |-> <<>>]
    ELSE LET i == Least(Occurrences(s, open))
             after == {j \in Occurrences(s, close) : j >= i + Len(open)}
         IN  IF after = {} THEN [found |-> FALSE, text |-> <<>>]
             ELSE [found |-> TRUE, text |-> SubSeq(s, i + Len(open), Least(after) - 1)]

\* r is t without the whitespace at its two ends
IsTrimOf(r, t) ==
    \E a \in 1..(Len(t) + 1) :
      LET b == a + Len(r) - 1 IN
        /\ b <= Len(t)
        /\ r = SubSeq(t, a, b)
        /\ \A k \in 1..(a - 1) : t[k] \in Whitespace
        /\ \A k \in (b + 1)..Len(t) : t[k] \in Whitespace
        /\ r # <<>> => (r[1] \notin Whitespace /\ r[Len(r)] \notin Whitespace)

C8_ParserSections ==
    pc = "p136" =>
        LET c == Between(response.text, CODE_OPEN, CODE_CLOSE)
            t == Between(response.text, TEST_OPEN, TEST_CLOSE)
        IN  /\ IF c.found THEN IsTrimOf(code, c.text) ELSE code = NO_CODE_FOUND
            /\ IF t.found THEN IsTrimOf(test_results, t.text) ELSE test_results = <<>>
            /\ escaped = "none"

\* no code section, and a test section with whitespace around its text
C8_Witness ==
    /\ pc = "p136"
    /\ code = NO_CODE_FOUND
    /\ test_results = <<"x">>
    /\ Len(Between(response.text, TEST_OPEN, TEST_CLOSE).text) > 1

====
